---- MODULE Spec2Model ----
(***************************************************************************)
(* A model of src/bank.c: the account registry, the store file, the menu   *)
(* loops of main() and the balance-mutating handlers.  Every monetary      *)
(* field of the program is a C float; the model computes on IEEE-754       *)
(* binary32 values (round to nearest, ties to even) so that rounding,      *)
(* refunds and round trips behave as in the program.                       *)
(***************************************************************************)
EXTENDS Integers, Sequences, FiniteSets, TLC

(***************************************************************************)
(* Program constants (src/bank.c:11-18).                                   *)
(***************************************************************************)
MAX_ACCOUNTS == 100
MAX_NAME_LENGTH == 50
MIN_PIN == 1000
MAX_PIN == 9999

(***************************************************************************)
(* IEEE-754 binary32.  A float is its three bit fields: sign s, biased     *)
(* exponent e (0..255) and fraction m (0..2^23-1).                         *)
(***************************************************************************)
HiddenBit == 8388608

F32(s, e, m) == [s |-> s, e |-> e, m |-> m]

IsNaN(x) == x.e = 255 /\ x.m # 0
IsInf(x) == x.e = 255 /\ x.m = 0
IsZero(x) == x.e = 0 /\ x.m = 0

\* The NaN an invalid operation produces (x86 SSE "real indefinite").
DefaultNaN == F32(1, 255, 4194304)

\* A NaN operand is propagated with its quiet bit set.
Quiet(x) == F32(x.s, 255, IF x.m < 4194304 THEN x.m + 4194304 ELSE x.m)

F32Neg(x) == F32(1 - x.s, x.e, x.m)

\* value(x) = Sig(x) * 2^(Ex(x) - 150)
Sig(x) == IF x.e = 0 THEN x.m ELSE HiddenBit + x.m
Ex(x) == IF x.e = 0 THEN 1 ELSE x.e

\* Number of significant bits of X, 0 <= X < 2^30.
BitLen(X) == IF X = 0 THEN 0 ELSE CHOOSE k \in 1..30 : X \div 2^(k - 1) = 1

\* X / 2^n with the bits shifted out or-ed into the lowest bit.
ShiftRightJam(X, n) ==
    IF n = 0 THEN X
    ELSE IF n >= 30 THEN (IF X = 0 THEN 0 ELSE 1)
    ELSE LET d == X \div 2^n
             r == X % 2^n
         IN  IF r # 0 /\ d % 2 = 0 THEN d + 1 ELSE d

\* The binary32 nearest to (-1)^s * X * 2^q, ties to even.  X is exact, or
\* has at least 26 significant bits and carries a sticky lowest bit.
RoundPack(s, X, q) ==
    IF X = 0 THEN F32(s, 0, 0)
    ELSE LET n  == BitLen(X)
             X1 == IF n <= 27 THEN X * 2^(27 - n) ELSE ShiftRightJam(X, n - 27)
             E  == q - (27 - n) + 153
         IN  IF E >= 255 THEN F32(s, 255, 0)
             ELSE LET X2   == IF E <= 0 THEN ShiftRightJam(X1, 1 - E) ELSE X1
                      sig  == X2 \div 8
                      rem  == X2 % 8
                      sig2 == IF rem > 4 \/ (rem = 4 /\ sig % 2 = 1)
                              THEN sig + 1 ELSE sig
                      enc  == (IF E <= 0 THEN 0 ELSE E - 1) * HiddenBit + sig2
                  IN  F32(s, enc \div HiddenBit, enc % HiddenBit)

\* Conversion of a C int to float.
FromInt(n) == IF n < 0 THEN RoundPack(1, 0 - n, 0) ELSE RoundPack(0, n, 0)

Max2(a, b) == IF a >= b THEN a ELSE b

\* (-1)^s * (|x| + |y|) for finite x, y.
AddMags(s, x, y) ==
    LET e == Max2(Ex(x), Ex(y))
        A == ShiftRightJam(Sig(x) * 8, e - Ex(x))
        B == ShiftRightJam(Sig(y) * 8, e - Ex(y))
    IN  RoundPack(s, A + B, e - 153)

\* (-1)^s * (|x| - |y|) for finite x, y.
SubMags(s, x, y) ==
    LET e == Max2(Ex(x), Ex(y))
        A == ShiftRightJam(Sig(x) * 8, e - Ex(x))
        B == ShiftRightJam(Sig(y) * 8, e - Ex(y))
    IN  IF A = B THEN F32(0, 0, 0)
        ELSE IF A > B THEN RoundPack(s, A - B, e - 153)
        ELSE RoundPack(1 - s, B - A, e - 153)

\* x + y
F32Add(x, y) ==
    IF IsNaN(x) THEN Quiet(x)
    ELSE IF IsNaN(y) THEN Quiet(y)
    ELSE IF IsInf(x) THEN (IF IsInf(y) /\ x.s # y.s THEN DefaultNaN ELSE x)
    ELSE IF IsInf(y) THEN y
    ELSE IF x.s = y.s THEN AddMags(x.s, x, y)
    ELSE SubMags(x.s, x, y)

\* x - y
F32Sub(x, y) == IF IsNaN(x) \/ IsNaN(y) THEN F32Add(x, y) ELSE F32Add(x, F32Neg(y))

\* Significand of a finite non-zero x brought to 24 bits, with its exponent.
NormSig(x) ==
    IF x.e # 0 THEN [sig |-> HiddenBit + x.m, ex |-> x.e]
    ELSE LET n == BitLen(x.m)
         IN  [sig |-> x.m * 2^(24 - n), ex |-> 1 - (24 - n)]

\* x * y
F32Mul(x, y) ==
    LET s == IF x.s = y.s THEN 0 ELSE 1
    IN  IF IsNaN(x) THEN Quiet(x)
        ELSE IF IsNaN(y) THEN Quiet(y)
        ELSE IF IsInf(x) \/ IsInf(y)
             THEN (IF IsZero(x) \/ IsZero(y) THEN DefaultNaN ELSE F32(s, 255, 0))
        ELSE IF IsZero(x) \/ IsZero(y) THEN F32(s, 0, 0)
        ELSE LET a   == NormSig(x)
                 b   == NormSig(y)
                 a1  == a.sig \div 4096
                 a0  == a.sig % 4096
                 b1  == b.sig \div 4096
                 b0  == b.sig % 4096
                 mid == a1 * b0 + a0 * b1
                 low == (mid % 256) * 4096 + a0 * b0
                 top == a1 * b1 * 16 + mid \div 256 + low \div 1048576
                 X   == IF low % 1048576 # 0 /\ top % 2 = 0 THEN top + 1 ELSE top
             IN  RoundPack(s, X, a.ex + b.ex - 280)

\* x / y
F32Div(x, y) ==
    LET s == IF x.s = y.s THEN 0 ELSE 1
    IN  IF IsNaN(x) THEN Quiet(x)
        ELSE IF IsNaN(y) THEN Quiet(y)
        ELSE IF IsInf(x) THEN (IF IsInf(y) THEN DefaultNaN ELSE F32(s, 255, 0))
        ELSE IF IsInf(y) THEN F32(s, 0, 0)
        ELSE IF IsZero(y) THEN (IF IsZero(x) THEN DefaultNaN ELSE F32(s, 255, 0))
        ELSE IF IsZero(x) THEN F32(s, 0, 0)
        ELSE LET a  == NormSig(x)
                 b  == NormSig(y)
                 q0 == a.sig \div b.sig
                 r0 == a.sig % b.sig
                 q1 == (r0 * 128) \div b.sig
                 r1 == (r0 * 128) % b.sig
                 q2 == (r1 * 128) \div b.sig
                 r2 == (r1 * 128) % b.sig
                 q3 == (r2 * 128) \div b.sig
                 r3 == (r2 * 128) % b.sig
                 q4 == (r3 * 128) \div b.sig
                 r4 == (r3 * 128) % b.sig
                 Q  == q0 * 268435456 + q1 * 2097152 + q2 * 16384 + q3 * 128 + q4
                 X  == IF r4 # 0 /\ Q % 2 = 0 THEN Q + 1 ELSE Q
             IN  RoundPack(s, X, a.ex - b.ex - 28)

\* Total order key of a non-NaN float (-0 and +0 share a key).
Key(x) == IF x.s = 1 THEN 0 - (x.e * HiddenBit + x.m) ELSE x.e * HiddenBit + x.m

\* The C comparisons; every comparison with a NaN is false.
F32Lt(x, y) == ~IsNaN(x) /\ ~IsNaN(y) /\ Key(x) < Key(y)
F32Le(x, y) == ~IsNaN(x) /\ ~IsNaN(y) /\ Key(x) <= Key(y)
F32Gt(x, y) == F32Lt(y, x)
F32Ge(x, y) == F32Le(y, x)
F32Eq(x, y) == ~IsNaN(x) /\ ~IsNaN(y) /\ Key(x) = Key(y)

\* The float a decimal literal n/d denotes (n, d exact): the division is
\* correctly rounded, as is the compiler's conversion of the literal.
Dec(n, d) == F32Div(FromInt(n), FromInt(d))

Zero == F32(0, 0, 0)
One == FromInt(1)

INTEREST_RATE == Dec(5, 100)
STARTING_BALANCE == FromInt(1000)
LOAN_AMOUNT == FromInt(500)
ASSET_PURCHASE_AMOUNT == FromInt(100)

(***************************************************************************)
(* Bounds of the model.                                                    *)
(***************************************************************************)
\* Handlers run from the user menu in one session.
MaxOps == 2
\* Failed saveAccounts calls a run is followed through: after the last of
\* them the model lets the program only leave its menu.
MaxIOFaults == 1

(***************************************************************************)
(* Console input.  scanf either converts a value or fails.                 *)
(***************************************************************************)
IntIn(v) == [ok |-> TRUE, v |-> v]
NoInt == [ok |-> FALSE, v |-> 0]
FloatIn(f) == [ok |-> TRUE, v |-> f]
NoFloat == [ok |-> FALSE, v |-> Zero]

\* Tokens typed at a name prompt, as scanf("%49s") delivers them.
NameInputs == { <<"a", "l">>, <<"b", "o">>, <<"r", "2">> }
\* Numbers typed at a PIN prompt of createAccount and loginAccount.
PinInputs == { IntIn(1234), IntIn(4321), IntIn(999), NoInt }
\* Numbers typed at the PIN prompt of verifyPIN.
VerifyInputs == { IntIn(1234), IntIn(4321), NoInt }
\* Amounts typed at an amount prompt.
BigAmount == FromInt(67107968)
AmountInputs == { FloatIn(FromInt(0 - 2000)), FloatIn(Zero), FloatIn(FromInt(100)),
                  FloatIn(FromInt(1000)), FloatIn(BigAmount), NoFloat }
\* Entries at the handlers' own menus.
CashChoices == { IntIn(1), IntIn(2), IntIn(3), NoInt }
AssetChoices == { IntIn(1), IntIn(2), IntIn(3), IntIn(9), NoInt }
ConfirmInputs == { IntIn(1), IntIn(0), NoInt }
ForexChoices == { IntIn(1), IntIn(2), IntIn(3), IntIn(4), IntIn(5), NoInt }
CurrencyChoices == { IntIn(1), IntIn(2), IntIn(3), IntIn(9), NoInt }
MenuChoices == { IntIn(0), NoInt }
\* Values returned by rand().
RandInputs == { 0, 34 }

(***************************************************************************)
(* State (src/bank.c:78-83) and the store file.                            *)
(***************************************************************************)
VARIABLES
    accounts,          \* the written slots of accounts[], slot i at index i + 1
    accountCount,
    currentUserIndex,
    marketPrices,
    exchangeRates,
    file,              \* accounts.dat
    pc,                \* position in main()
    last,              \* what the handler that just returned did and reported
    ioFaults,          \* saveAccounts calls that failed so far
    nops               \* user menu handlers run so far

vars == <<accounts, accountCount, currentUserIndex, marketPrices, exchangeRates,
          file, pc, last, ioFaults, nops>>

\* A slot of static storage never written.
ZeroAccount ==
    [name |-> <<>>, pin |-> 0, balance |-> Zero, loan |-> Zero,
     assets |-> [crypto |-> Zero, gold |-> Zero, silver |-> Zero],
     currencies |-> [eur |-> Zero, gbp |-> Zero, inr |-> Zero]]

\* accounts[i]
Slot(accs, i) == IF i + 1 <= Len(accs) THEN accs[i + 1] ELSE ZeroAccount

\* accounts[i] = r
SetSlot(accs, i, r) ==
    [j \in 1..Max2(Len(accs), i + 1) |-> IF j = i + 1 THEN r ELSE Slot(accs, j - 1)]

\* accounts[0 .. cnt-1]
Registry(accs, cnt) == [j \in 1..cnt |-> Slot(accs, j - 1)]

MissingFile == [exists |-> FALSE, count |-> <<>>, recs |-> <<>>]

\* What is remembered of the handler before the last menu: nothing, or the
\* deposit or conversion to a foreign currency it completed, with its inputs
\* and the selected account as that handler found it.
NoPrev == [op |-> "none", amount |-> NoFloat, choice |-> NoInt, before |-> ZeroAccount]

\* What a handler reports: the error code it returns or hands to displayError
\* ("SUCCESS" when it completes without one, "NONE" when it ends without effect
\* and without an error), a message of its own, whether it called saveAccounts
\* and how that ended, and the inputs it consumed.  A deposit and a conversion
\* to a foreign currency also record the account as they found it (before).
Rep(op, result) ==
    [op |-> op, result |-> result, msg |-> "", saved |-> "none",
     name |-> <<>>, pinAsked |-> FALSE, pin |-> NoInt, amount |-> NoFloat,
     choice |-> NoInt, choice2 |-> NoInt, shown |-> NoFloat,
     before |-> ZeroAccount, prev |-> NoPrev]

\* The report the user menu starts from: empty, but for the memory of a
\* deposit or conversion of a positive amount that has just succeeded.
AtMenu(r) ==
    IF /\ r.op \in { "deposit", "convertToForeign" }
       /\ r.result = "SUCCESS"
       /\ F32Gt(r.amount.v, Zero)
    THEN [Rep("none", "NONE") EXCEPT
             !.prev = [op |-> r.op, amount |-> r.amount, choice |-> r.choice,
                       before |-> r.before]]
    ELSE Rep("none", "NONE")

(***************************************************************************)
(* Utility functions.                                                      *)
(***************************************************************************)
Alpha == { "a", "b", "c", "d", "e", "f", "g", "h", "i", "j", "k", "l", "m",
           "n", "o", "p", "q", "r", "s", "t", "u", "v", "w", "x", "y", "z",
           "A", "B", "C", "D", "E", "F", "G", "H", "I", "J", "K", "L", "M",
           "N", "O", "P", "Q", "R", "S", "T", "U", "V", "W", "X", "Y", "Z" }

isAlphaString(str) == Len(str) > 0 /\ \A i \in 1..Len(str) : str[i] \in Alpha

isValidPIN(pin) == pin >= MIN_PIN /\ pin <= MAX_PIN

(***************************************************************************)
(* File operations.                                                        *)
(***************************************************************************)
\* The ways one saveAccounts call can end: written in full, fopen fails,
\* the count is not written, or only `written` < cnt records are.
IOOutcomes(cnt) ==
    { [kind |-> "ok", written |-> 0], [kind |-> "fopen", written |-> 0],
      [kind |-> "count", written |-> 0] }
    \cup { [kind |-> "records", written |-> k] : k \in 0..(cnt - 1) }

saveAccounts(accs, cnt, io) ==
    IF io.kind = "fopen" THEN [rc |-> "ERROR_FILE_IO", file |-> file]
    ELSE IF io.kind = "count"
    THEN [rc |-> "ERROR_FILE_IO", file |-> [exists |-> TRUE, count |-> <<>>, recs |-> <<>>]]
    ELSE IF io.kind = "records"
    THEN [rc |-> "ERROR_FILE_IO",
          file |-> [exists |-> TRUE, count |-> <<cnt>>, recs |-> Registry(accs, io.written)]]
    ELSE [rc |-> "SUCCESS",
          file |-> [exists |-> TRUE, count |-> <<cnt>>, recs |-> Registry(accs, cnt)]]

\* The count is read and believed, the records are not read.
loadInto_CountOnly(accs, cnt, f) ==
    IF ~f.exists
    THEN [rc |-> "SUCCESS", accounts |-> accs, accountCount |-> cnt]
    ELSE IF Len(f.count) = 0
    THEN [rc |-> "ERROR_FILE_IO", accounts |-> accs, accountCount |-> cnt]
    ELSE [rc |-> "SUCCESS", accounts |-> accs, accountCount |-> f.count[1]]

\* What loadAccounts leaves in memory and returns when it runs on the store
\* file f with accs and cnt in memory.  A missing file is not an error; a file
\* without a count, or with fewer records than its count announces, is.
\* fread stores the records it finds before it reports how many they were, and
\* a negative count, converted to size_t, asks for every record of the file.
\* (Files that hold more than MAX_ACCOUNTS records under a count outside
\* 0..MAX_ACCOUNTS are not among the inputs of the model.)
loadInto(accs, cnt, f) ==
    IF ~f.exists
    THEN [rc |-> "SUCCESS", accounts |-> accs, accountCount |-> cnt]
    ELSE IF Len(f.count) = 0
    THEN [rc |-> "ERROR_FILE_IO", accounts |-> accs, accountCount |-> cnt]
    ELSE LET n    == f.count[1]
             got  == IF n < 0 \/ Len(f.recs) < n THEN Len(f.recs) ELSE n
             mem  == [j \in 1..Max2(Len(accs), got) |->
                         IF j <= got THEN f.recs[j] ELSE accs[j]]
         IN  [rc |-> IF got = n THEN "SUCCESS" ELSE "ERROR_FILE_IO",
              accounts |-> mem, accountCount |-> n]

loadAccounts == loadInto(accounts, accountCount, file)

(***************************************************************************)
(* A handler's outcome: the registry and the file it leaves, whether a     *)
(* saveAccounts call of it failed, and its report.                         *)
(***************************************************************************)
\* The handler returns without touching the registry or the file.
Keep(report) ==
    [accounts |-> accounts, accountCount |-> accountCount, file |-> file,
     failed |-> FALSE, report |-> report]

\* The handler leaves accs in memory and returns without saving.
NoSave(accs, report) ==
    [accounts |-> accs, accountCount |-> accountCount, file |-> file,
     failed |-> FALSE, report |-> report]

\* "return saveAccounts();": the caller gets the result of the save.
SaveReturn(accs, cnt, io, report) ==
    LET sv == saveAccounts(accs, cnt, io)
    IN  [accounts |-> accs, accountCount |-> cnt, file |-> sv.file,
         failed |-> sv.rc # "SUCCESS",
         report |-> [report EXCEPT !.result = sv.rc,
                                   !.saved = IF sv.rc = "SUCCESS" THEN "ok" ELSE "fail"]]

\* "saveAccounts();" in a void handler: the result of the save is dropped.
SaveIgnore(accs, cnt, io, report) ==
    LET sv == saveAccounts(accs, cnt, io)
    IN  [accounts |-> accs, accountCount |-> cnt, file |-> sv.file,
         failed |-> sv.rc # "SUCCESS",
         report |-> [report EXCEPT !.saved = IF sv.rc = "SUCCESS" THEN "ok" ELSE "fail"]]

(***************************************************************************)
(* Account management.                                                     *)
(***************************************************************************)
\* A registration is refused only when one account has both the name and the PIN.
accountExists_And(name, pin) ==
    \E i \in 0..(accountCount - 1) :
        Slot(accounts, i).name = name /\ Slot(accounts, i).pin = pin

accountExists(name, pin) ==
    \E i \in 0..(accountCount - 1) :
        Slot(accounts, i).name = name \/ Slot(accounts, i).pin = pin

\* The new account gets no starting balance.
initializeAccount_NoBalance(name, pin) ==
    [name |-> name, pin |-> pin, balance |-> Zero, loan |-> Zero,
     assets |-> [crypto |-> Zero, gold |-> Zero, silver |-> Zero],
     currencies |-> [eur |-> Zero, gbp |-> Zero, inr |-> Zero]]

\* strncpy(account->name, name, MAX_NAME_LENGTH - 1) and the defaults.
initializeAccount(name, pin) ==
    [name |-> SubSeq(name, 1, IF Len(name) < MAX_NAME_LENGTH - 1
                              THEN Len(name) ELSE MAX_NAME_LENGTH - 1),
     pin |-> pin, balance |-> STARTING_BALANCE, loan |-> Zero,
     assets |-> [crypto |-> Zero, gold |-> Zero, silver |-> Zero],
     currencies |-> [eur |-> Zero, gbp |-> Zero, inr |-> Zero]]

\* The registry is never taken to be full.
registryFull_Never == FALSE

\* accountCount >= MAX_ACCOUNTS
registryFull == accountCount >= MAX_ACCOUNTS

\* name and pin are the entries that ended the two prompt loops.
createAccount(name, pin, io) ==
    IF registryFull
    THEN Keep([Rep("register", "ERROR_INVALID_INPUT") EXCEPT
                   !.msg = "Maximum account limit reached."])
    ELSE IF accountExists(name, pin.v)
    THEN Keep([Rep("register", "ERROR_ACCOUNT_EXISTS") EXCEPT
                   !.name = name, !.pinAsked = TRUE, !.pin = pin])
    ELSE SaveReturn(SetSlot(accounts, accountCount, initializeAccount(name, pin.v)),
                    accountCount + 1, io,
                    [Rep("register", "SUCCESS") EXCEPT
                         !.name = name, !.pinAsked = TRUE, !.pin = pin])

\* The first account with the name is selected, whatever its PIN.
loginMatch_NameOnly(name, pin) ==
    LET hits == { i \in 0..(accountCount - 1) : Slot(accounts, i).name = name }
    IN  IF hits = {} THEN 0 - 1
        ELSE CHOOSE i \in hits : \A j \in hits : i <= j

\* The index loginAccount selects, or -1: the first account matching both.
loginMatch(name, pin) ==
    LET hits == { i \in 0..(accountCount - 1) :
                     Slot(accounts, i).name = name /\ Slot(accounts, i).pin = pin }
    IN  IF hits = {} THEN 0 - 1
        ELSE CHOOSE i \in hits : \A j \in hits : i <= j

\* accounts[currentUserIndex]
Cur == Slot(accounts, currentUserIndex)

\* The record is written to accounts[0], whoever is logged in.
WithCur_First(user) == SetSlot(accounts, 0, user)

\* accounts[] with accounts[currentUserIndex] = user
WithCur(user) == SetSlot(accounts, currentUserIndex, user)

\* Any PIN that parses is accepted.
verifyPIN_AnyPin(pin) == pin.ok

verifyPIN(pin) == pin.ok /\ pin.v = Cur.pin

(***************************************************************************)
(* Market operations.                                                      *)
(***************************************************************************)
\* price * (1.0f + ((r % span) - low) / 100.0f)
Fluctuate(price, r, span, low) ==
    F32Mul(price, F32Add(One, F32Div(FromInt((r % span) - low), FromInt(100))))

updateMarketPrices(r1, r2, r3) ==
    [crypto |-> Fluctuate(marketPrices.crypto, r1, 35, 15),
     gold   |-> Fluctuate(marketPrices.gold, r2, 15, 5),
     silver |-> Fluctuate(marketPrices.silver, r3, 25, 10)]

(***************************************************************************)
(* Banking operations.                                                     *)
(***************************************************************************)
depositCash(amount, io) ==
    IF F32Le(amount.v, Zero)
    THEN Keep([Rep("deposit", "ERROR_INVALID_INPUT") EXCEPT !.amount = amount])
    ELSE SaveReturn(WithCur([Cur EXCEPT !.balance = F32Add(@, amount.v)]),
                    accountCount, io,
                    [Rep("deposit", "SUCCESS") EXCEPT !.amount = amount, !.before = Cur])

withdrawCash(amount, pin, io) ==
    IF F32Le(amount.v, Zero)
    THEN Keep([Rep("withdraw", "ERROR_INVALID_INPUT") EXCEPT !.amount = amount])
    ELSE IF F32Gt(amount.v, Cur.balance)
    THEN Keep([Rep("withdraw", "ERROR_INSUFFICIENT_FUNDS") EXCEPT !.amount = amount])
    ELSE IF ~verifyPIN(pin)
    THEN Keep([Rep("withdraw", "ERROR_INVALID_PIN") EXCEPT
                   !.amount = amount, !.pinAsked = TRUE, !.pin = pin])
    ELSE SaveReturn(WithCur([Cur EXCEPT !.balance = F32Sub(@, amount.v)]),
                    accountCount, io,
                    [Rep("withdraw", "SUCCESS") EXCEPT !.amount = amount, !.pinAsked = TRUE, !.pin = pin])

processCashTransaction(choice, amount, pin, io) ==
    IF ~choice.ok
    THEN Keep(Rep("cash", "ERROR_INVALID_INPUT"))
    ELSE IF ~amount.ok
    THEN Keep([Rep("cash", "ERROR_INVALID_INPUT") EXCEPT !.choice = choice])
    ELSE IF choice.v = 1 THEN depositCash(amount, io)
    ELSE IF choice.v = 2 THEN withdrawCash(amount, pin, io)
    ELSE Keep([Rep("cash", "ERROR_INVALID_INPUT") EXCEPT
                   !.choice = choice, !.amount = amount])

purchaseAsset(pin, choice, io) ==
    IF F32Lt(Cur.balance, ASSET_PURCHASE_AMOUNT)
    THEN Keep(Rep("purchaseAsset", "ERROR_INSUFFICIENT_FUNDS"))
    ELSE IF ~verifyPIN(pin)
    THEN Keep([Rep("purchaseAsset", "ERROR_INVALID_PIN") EXCEPT !.pinAsked = TRUE, !.pin = pin])
    ELSE IF ~choice.ok
    THEN Keep([Rep("purchaseAsset", "ERROR_INVALID_INPUT") EXCEPT !.pinAsked = TRUE, !.pin = pin])
    ELSE LET debited == [Cur EXCEPT !.balance = F32Sub(@, ASSET_PURCHASE_AMOUNT)]
             units   == ASSET_PURCHASE_AMOUNT
             ok      == [Rep("purchaseAsset", "SUCCESS") EXCEPT
                             !.pinAsked = TRUE, !.pin = pin, !.choice = choice]
         IN  IF choice.v = 1
             THEN SaveIgnore(WithCur([debited EXCEPT !.assets.crypto =
                                 F32Add(@, F32Div(units, marketPrices.crypto))]),
                             accountCount, io, ok)
             ELSE IF choice.v = 2
             THEN SaveIgnore(WithCur([debited EXCEPT !.assets.gold =
                                 F32Add(@, F32Div(units, marketPrices.gold))]),
                             accountCount, io, ok)
             ELSE IF choice.v = 3
             THEN SaveIgnore(WithCur([debited EXCEPT !.assets.silver =
                                 F32Add(@, F32Div(units, marketPrices.silver))]),
                             accountCount, io, ok)
             ELSE NoSave(WithCur([debited EXCEPT !.balance =
                                     F32Add(@, ASSET_PURCHASE_AMOUNT)]),
                         [Rep("purchaseAsset", "ERROR_INVALID_INPUT") EXCEPT
                              !.pinAsked = TRUE, !.pin = pin, !.choice = choice])

\* The handler is takeLoan while no loan is outstanding and repayLoan otherwise.
\* Every loan request is handled as a request for a new loan.
noLoan_Always == TRUE

\* user->loan == 0
noLoan == F32Eq(Cur.loan, Zero)

\* Every outstanding loan is taken to be covered by the balance.
canRepay_Always == TRUE

\* user->balance >= user->loan
canRepay == F32Ge(Cur.balance, Cur.loan)

manageLoan(pin, confirm, io) ==
    LET op == IF noLoan THEN "takeLoan" ELSE "repayLoan"
    IN  IF ~verifyPIN(pin)
        THEN Keep([Rep(op, "ERROR_INVALID_PIN") EXCEPT !.pinAsked = TRUE, !.pin = pin])
        ELSE IF noLoan
        THEN IF ~confirm.ok \/ confirm.v # 1
             THEN Keep([Rep(op, "NONE") EXCEPT
                            !.msg = "Loan request cancelled.",
                            !.pinAsked = TRUE, !.pin = pin, !.choice = confirm])
             ELSE SaveIgnore(WithCur([Cur EXCEPT
                                 !.loan = LOAN_AMOUNT,
                                 !.balance = F32Add(@, LOAN_AMOUNT)]),
                             accountCount, io,
                             [Rep(op, "SUCCESS") EXCEPT !.pinAsked = TRUE, !.pin = pin, !.choice = confirm])
        ELSE IF canRepay
        THEN IF ~confirm.ok \/ confirm.v # 1
             THEN Keep([Rep(op, "NONE") EXCEPT
                            !.msg = "Repayment cancelled.",
                            !.pinAsked = TRUE, !.pin = pin, !.choice = confirm])
             ELSE SaveIgnore(WithCur([Cur EXCEPT
                                 !.balance = F32Sub(@, Cur.loan),
                                 !.loan = Zero]),
                             accountCount, io,
                             [Rep(op, "SUCCESS") EXCEPT !.pinAsked = TRUE, !.pin = pin, !.choice = confirm])
        ELSE Keep([Rep(op, "NONE") EXCEPT
                       !.msg = "Insufficient funds to repay loan.", !.pinAsked = TRUE, !.pin = pin])

addInterest(io) ==
    LET interest == F32Mul(Cur.balance, INTEREST_RATE)
    IN  SaveIgnore(WithCur([Cur EXCEPT !.balance = F32Add(@, interest)]),
                   accountCount, io, Rep("accrueInterest", "SUCCESS"))

\* The net worth displayAccountStatus computes for user at the given prices
\* and rates.
netWorthOf(user, prices, rates) ==
    LET totalAssets == F32Add(F32Add(F32Mul(user.assets.crypto, prices.crypto),
                                     F32Mul(user.assets.gold, prices.gold)),
                              F32Mul(user.assets.silver, prices.silver))
        totalForex  == F32Add(F32Add(F32Mul(user.currencies.eur, rates.eur),
                                     F32Mul(user.currencies.gbp, rates.gbp)),
                              F32Mul(user.currencies.inr, rates.inr))
    IN  F32Sub(F32Add(F32Add(user.balance, totalAssets), totalForex), user.loan)

\* The net worth displayAccountStatus computes for the report.
netWorth == netWorthOf(Cur, marketPrices, exchangeRates)

displayAccountStatus ==
    Keep([Rep("status", "NONE") EXCEPT !.shown = FloatIn(netWorth)])

manageForexWallet(choice, currency, amount, io) ==
    IF ~choice.ok
    THEN Keep(Rep("forex", "ERROR_INVALID_INPUT"))
    ELSE IF choice.v >= 1 /\ choice.v <= 3
    THEN IF ~amount.ok
         THEN Keep([Rep("convertToForeign", "ERROR_INVALID_INPUT") EXCEPT
                        !.choice = choice])
         ELSE IF F32Gt(amount.v, Cur.balance)
         THEN Keep([Rep("convertToForeign", "ERROR_INSUFFICIENT_FUNDS") EXCEPT
                        !.choice = choice, !.amount = amount])
         ELSE LET debited == [Cur EXCEPT !.balance = F32Sub(@, amount.v)]
                  ok      == [Rep("convertToForeign", "SUCCESS") EXCEPT
                                  !.choice = choice, !.amount = amount, !.before = Cur]
              IN  IF choice.v = 1
                  THEN SaveIgnore(WithCur([debited EXCEPT !.currencies.eur =
                                      F32Add(@, F32Div(amount.v, exchangeRates.eur))]),
                                  accountCount, io, ok)
                  ELSE IF choice.v = 2
                  THEN SaveIgnore(WithCur([debited EXCEPT !.currencies.gbp =
                                      F32Add(@, F32Div(amount.v, exchangeRates.gbp))]),
                                  accountCount, io, ok)
                  ELSE SaveIgnore(WithCur([debited EXCEPT !.currencies.inr =
                                      F32Add(@, F32Div(amount.v, exchangeRates.inr))]),
                                  accountCount, io, ok)
    ELSE IF choice.v = 4
    THEN IF ~currency.ok
         THEN Keep([Rep("convertFromForeign", "ERROR_INVALID_INPUT") EXCEPT
                        !.choice = choice])
         ELSE IF ~amount.ok
         THEN Keep([Rep("convertFromForeign", "ERROR_INVALID_INPUT") EXCEPT
                        !.choice = choice, !.choice2 = currency])
         ELSE LET ok   == [Rep("convertFromForeign", "SUCCESS") EXCEPT
                               !.choice = choice, !.choice2 = currency,
                               !.amount = amount]
                  fail == Keep([ok EXCEPT !.result = "ERROR_INSUFFICIENT_FUNDS"])
              IN  IF currency.v = 1
                  THEN IF F32Le(amount.v, Cur.currencies.eur)
                       THEN SaveIgnore(WithCur([Cur EXCEPT
                                !.currencies.eur = F32Sub(@, amount.v),
                                !.balance = F32Add(@, F32Mul(amount.v, exchangeRates.eur))]),
                                accountCount, io, ok)
                       ELSE fail
                  ELSE IF currency.v = 2
                  THEN IF F32Le(amount.v, Cur.currencies.gbp)
                       THEN SaveIgnore(WithCur([Cur EXCEPT
                                !.currencies.gbp = F32Sub(@, amount.v),
                                !.balance = F32Add(@, F32Mul(amount.v, exchangeRates.gbp))]),
                                accountCount, io, ok)
                       ELSE fail
                  ELSE IF currency.v = 3
                  THEN IF F32Le(amount.v, Cur.currencies.inr)
                       THEN SaveIgnore(WithCur([Cur EXCEPT
                                !.currencies.inr = F32Sub(@, amount.v),
                                !.balance = F32Add(@, F32Mul(amount.v, exchangeRates.inr))]),
                                accountCount, io, ok)
                       ELSE fail
                  ELSE fail
    ELSE Keep([Rep("forex", "NONE") EXCEPT !.choice = choice])

(***************************************************************************)
(* The program: main() loads the store, runs the main menu until a login   *)
(* succeeds or the user exits, then runs the user menu until logout.       *)
(***************************************************************************)
Init ==
    /\ accounts = <<>>
    /\ accountCount = 0
    /\ currentUserIndex = 0 - 1
    /\ marketPrices = [crypto |-> FromInt(150), gold |-> FromInt(60), silver |-> FromInt(25)]
    /\ exchangeRates = [eur |-> Dec(110, 100), gbp |-> Dec(127, 100), inr |-> Dec(12, 1000)]
    /\ file = MissingFile
    /\ pc = "boot"
    /\ last = Rep("none", "NONE")
    /\ ioFaults = 0
    /\ nops = 0

\* The run is still followed: fewer than MaxIOFaults saves have failed, and
\* the account count is one with which the handlers stay inside accounts[].
Running == ioFaults < MaxIOFaults /\ accountCount >= 0 /\ accountCount <= MAX_ACCOUNTS

\* The state a handler's outcome leaves.
Apply(out) ==
    /\ accounts' = out.accounts
    /\ accountCount' = out.accountCount
    /\ file' = out.file
    /\ last' = out.report
    /\ ioFaults' = ioFaults + (IF out.failed THEN 1 ELSE 0)

LoadAccounts ==
    /\ pc = "boot"
    /\ accounts' = loadAccounts.accounts
    /\ accountCount' = loadAccounts.accountCount
    /\ last' = Rep("load", loadAccounts.rc)
    /\ pc' = "main"
    /\ UNCHANGED <<currentUserIndex, marketPrices, exchangeRates, file, ioFaults, nops>>

\* The entries that end createAccount's prompt loops: an alphabetic name and
\* a PIN in range.  A full registry returns before any prompt.
Entered(name, pin) ==
    IF registryFull THEN TRUE
    ELSE isAlphaString(name) /\ pin.ok /\ isValidPIN(pin.v)

CreateAccount ==
    /\ pc = "main"
    /\ Running
    /\ \E name \in NameInputs, pin \in PinInputs, io \in IOOutcomes(accountCount + 1) :
          /\ Entered(name, pin)
          /\ Apply(createAccount(name, pin, io))
    /\ pc' = "main_ret"
    /\ UNCHANGED <<currentUserIndex, marketPrices, exchangeRates, nops>>

LoginAccount ==
    /\ pc = "main"
    /\ Running
    /\ \E name \in NameInputs, pin \in PinInputs :
          IF ~pin.ok
          THEN /\ last' = [Rep("login", "ERROR_INVALID_INPUT") EXCEPT
                              !.name = name, !.pinAsked = TRUE]
               /\ pc' = "main_ret"
               /\ UNCHANGED currentUserIndex
          ELSE IF loginMatch(name, pin.v) >= 0
          THEN /\ currentUserIndex' = loginMatch(name, pin.v)
               /\ last' = [Rep("login", "SUCCESS") EXCEPT
                              !.name = name, !.pinAsked = TRUE, !.pin = pin]
               /\ pc' = "user"
          ELSE /\ last' = [Rep("login", "ERROR_INVALID_PIN") EXCEPT
                              !.msg = "Login failed. Invalid credentials.",
                              !.name = name, !.pinAsked = TRUE, !.pin = pin]
               /\ pc' = "main_ret"
               /\ UNCHANGED currentUserIndex
    /\ UNCHANGED <<accounts, accountCount, marketPrices, exchangeRates, file, ioFaults, nops>>

\* An unreadable or unknown entry at the main menu.
MainInvalidChoice ==
    /\ pc = "main"
    /\ Running
    /\ \E choice \in MenuChoices :
          last' = [Rep("menu", "ERROR_INVALID_INPUT") EXCEPT !.choice = choice]
    /\ pc' = "main_ret"
    /\ UNCHANGED <<accounts, accountCount, currentUserIndex, marketPrices,
                   exchangeRates, file, ioFaults, nops>>

Exit ==
    /\ pc = "main"
    /\ pc' = "exit"
    /\ last' = Rep("exit", "NONE")
    /\ UNCHANGED <<accounts, accountCount, currentUserIndex, marketPrices,
                   exchangeRates, file, ioFaults, nops>>

\* Back at the head of the main menu loop.
MainMenuLoop ==
    /\ pc = "main_ret"
    /\ pc' = "main"
    /\ last' = Rep("none", "NONE")
    /\ UNCHANGED <<accounts, accountCount, currentUserIndex, marketPrices,
                   exchangeRates, file, ioFaults, nops>>

\* A user menu handler may start.
AtUserMenu == pc = "user" /\ nops < MaxOps /\ Running

\* A user menu handler returns with no account selected any more.
Returned_Deselects ==
    /\ pc' = "user_ret"
    /\ nops' = nops + 1
    /\ currentUserIndex' = 0 - 1
    /\ UNCHANGED exchangeRates

\* A user menu handler has returned.
Returned ==
    /\ pc' = "user_ret"
    /\ nops' = nops + 1
    /\ UNCHANGED <<currentUserIndex, exchangeRates>>

ProcessCashTransaction ==
    /\ AtUserMenu
    /\ \E choice \in CashChoices, amount \in AmountInputs, pin \in VerifyInputs,
          io \in IOOutcomes(accountCount) :
          Apply(processCashTransaction(choice, amount, pin, io))
    /\ Returned
    /\ UNCHANGED marketPrices

PurchaseAsset ==
    /\ AtUserMenu
    /\ \E pin \in VerifyInputs, choice \in AssetChoices, io \in IOOutcomes(accountCount) :
          Apply(purchaseAsset(pin, choice, io))
    /\ Returned
    /\ UNCHANGED marketPrices

ManageLoan ==
    /\ AtUserMenu
    /\ \E pin \in VerifyInputs, confirm \in ConfirmInputs, io \in IOOutcomes(accountCount) :
          Apply(manageLoan(pin, confirm, io))
    /\ Returned
    /\ UNCHANGED marketPrices

DisplayAccountStatus ==
    /\ AtUserMenu
    /\ Apply(displayAccountStatus)
    /\ Returned
    /\ UNCHANGED marketPrices

DisplayMarketPrices ==
    /\ AtUserMenu
    /\ Apply(Keep(Rep("prices", "NONE")))
    /\ Returned
    /\ UNCHANGED marketPrices

UpdateMarketPrices ==
    /\ AtUserMenu
    /\ \E r1 \in RandInputs, r2 \in RandInputs, r3 \in RandInputs :
          marketPrices' = updateMarketPrices(r1, r2, r3)
    /\ Apply(Keep(Rep("advance", "NONE")))
    /\ Returned

AddInterest ==
    /\ AtUserMenu
    /\ \E io \in IOOutcomes(accountCount) : Apply(addInterest(io))
    /\ Returned
    /\ UNCHANGED marketPrices

\* The amounts the user reads off the wallet: the units held of each currency.
HeldAmounts ==
    { FloatIn(Cur.currencies.eur), FloatIn(Cur.currencies.gbp), FloatIn(Cur.currencies.inr) }

ManageForexWallet ==
    /\ AtUserMenu
    /\ \E choice \in ForexChoices, currency \in CurrencyChoices,
          amount \in AmountInputs \cup HeldAmounts, io \in IOOutcomes(accountCount) :
          Apply(manageForexWallet(choice, currency, amount, io))
    /\ Returned
    /\ UNCHANGED marketPrices

\* An unreadable or unknown entry at the user menu.
UserInvalidChoice ==
    /\ AtUserMenu
    /\ \E choice \in MenuChoices :
          Apply(Keep([Rep("menu", "ERROR_INVALID_INPUT") EXCEPT !.choice = choice]))
    /\ Returned
    /\ UNCHANGED marketPrices

Logout ==
    /\ pc = "user"
    /\ currentUserIndex' = 0 - 1
    /\ pc' = "exit"
    /\ last' = Rep("logout", "NONE")
    /\ UNCHANGED <<accounts, accountCount, marketPrices, exchangeRates, file,
                   ioFaults, nops>>

\* Back at the head of the user menu loop.
UserMenuLoop ==
    /\ pc = "user_ret"
    /\ pc' = "user"
    /\ last' = AtMenu(last)
    /\ UNCHANGED <<accounts, accountCount, currentUserIndex, marketPrices,
                   exchangeRates, file, ioFaults, nops>>

Next ==
    \/ LoadAccounts
    \/ CreateAccount
    \/ LoginAccount
    \/ MainInvalidChoice
    \/ Exit
    \/ MainMenuLoop
    \/ ProcessCashTransaction
    \/ PurchaseAsset
    \/ ManageLoan
    \/ DisplayAccountStatus
    \/ DisplayMarketPrices
    \/ UpdateMarketPrices
    \/ AddInterest
    \/ ManageForexWallet
    \/ UserInvalidChoice
    \/ Logout
    \/ UserMenuLoop

Spec == Init /\ [][Next]_vars

(***************************************************************************)
(* The store across two runs of the program.  A first process holds a      *)
(* registry and reaches a saveAccounts call; a second process starts on    *)
(* the file the first one left, or on a file found damaged, and runs       *)
(* main() from there.                                                      *)
(***************************************************************************)
Letters == << "a", "b", "c", "d", "e", "f", "g", "h", "i", "j", "k", "l", "m",
              "n", "o", "p", "q", "r", "s", "t", "u", "v", "w", "x", "y", "z" >>

\* A registry at capacity: MAX_ACCOUNTS accounts as createAccount leaves them,
\* with pairwise distinct names and PINs.
FullRegistry ==
    [j \in 1..MAX_ACCOUNTS |->
        initializeAccount(<<"x", Letters[((j - 1) \div 26) + 1], Letters[((j - 1) % 26) + 1]>>,
                          MIN_PIN + j - 1)]

\* An account after takeLoan and a withdrawal of 1400: it owes more than it has.
Debtor ==
    [initializeAccount(<<"a", "l">>, 1234) EXCEPT
        !.balance = FromInt(100), !.loan = LOAN_AMOUNT]

\* An account after addInterest, a purchase of gold and a conversion of
\* 100 USD to EUR.
Saver ==
    [initializeAccount(<<"b", "o">>, 4321) EXCEPT
        !.balance = FromInt(850),
        !.assets.gold = F32Div(ASSET_PURCHASE_AMOUNT, FromInt(60)),
        !.currencies.eur = F32Div(FromInt(100), Dec(110, 100))]

\* The registries the first process may hold.
StoreRegistries == { <<>>, <<Debtor>>, <<Debtor, Saver>>, FullRegistry }

\* The files the second process may find without the first one having saved:
\* none, one of zero bytes, one cut after the first of two records, one with a
\* record more than its count announces, and two with a count out of range.
StoreFiles ==
    { MissingFile,
      [exists |-> TRUE, count |-> <<>>, recs |-> <<>>],
      [exists |-> TRUE, count |-> <<2>>, recs |-> <<Debtor>>],
      [exists |-> TRUE, count |-> <<1>>, recs |-> <<Debtor, Saver>>],
      [exists |-> TRUE, count |-> <<0 - 1>>, recs |-> <<Debtor>>],
      [exists |-> TRUE, count |-> <<MAX_ACCOUNTS + 1>>, recs |-> <<Debtor>>] }

InitStore ==
    /\ accounts \in StoreRegistries
    /\ accountCount = Len(accounts)
    /\ currentUserIndex = 0 - 1
    /\ marketPrices = [crypto |-> FromInt(150), gold |-> FromInt(60), silver |-> FromInt(25)]
    /\ exchangeRates = [eur |-> Dec(110, 100), gbp |-> Dec(127, 100), inr |-> Dec(12, 1000)]
    /\ file \in StoreFiles
    /\ pc = "store"
    /\ last = Rep("none", "NONE")
    /\ ioFaults = 0
    /\ nops = 0

\* The first process calls saveAccounts.
SaveStore ==
    /\ pc = "store"
    /\ \E io \in IOOutcomes(accountCount) :
          Apply(SaveReturn(accounts, accountCount, io, Rep("save", "SUCCESS")))
    /\ pc' = "saved"
    /\ UNCHANGED <<currentUserIndex, marketPrices, exchangeRates, nops>>

\* The first process is gone; a second one starts with zeroed static storage
\* and runs main() up to the main menu, loadAccounts included.
RestartLoad ==
    /\ pc \in { "store", "saved" }
    /\ LET ld == loadInto(<<>>, 0, file)
       IN  /\ accounts' = ld.accounts
           /\ accountCount' = ld.accountCount
           /\ last' = Rep("load", ld.rc)
    /\ currentUserIndex' = 0 - 1
    /\ marketPrices' = [crypto |-> FromInt(150), gold |-> FromInt(60), silver |-> FromInt(25)]
    /\ pc' = "main"
    /\ UNCHANGED <<exchangeRates, file, ioFaults, nops>>

NextStore ==
    \/ SaveStore
    \/ RestartLoad
    \/ CreateAccount
    \/ LoginAccount
    \/ MainInvalidChoice
    \/ Exit
    \/ MainMenuLoop
    \/ ProcessCashTransaction
    \/ PurchaseAsset
    \/ ManageLoan
    \/ DisplayAccountStatus
    \/ DisplayMarketPrices
    \/ UpdateMarketPrices
    \/ AddInterest
    \/ ManageForexWallet
    \/ UserInvalidChoice
    \/ Logout
    \/ UserMenuLoop

SpecStore == InitStore /\ [][NextStore]_vars

(***************************************************************************)
(* The price feed on its own: a logged-in user chooses "Update Market      *)
(* Prices" (src/bank.c:856-858) and rand() may return any of its values.   *)
(***************************************************************************)
MaxAdvances == 2

\* The number of advances of a long run.
LongRun == 2100

\* The largest value of rand() (glibc).
RAND_MAX == 2147483647

\* Values returned by rand(): every residue modulo 35, 15 and 25 occurs.
RandValues == 0..34 \cup {RAND_MAX}

\* The values the three rand() calls of one advance return.
RandDraws == { <<r, r, r>> : r \in RandValues } \cup { <<0, RAND_MAX, 34>> }

\* The price after k advances in each of which rand() % span was res.
RECURSIVE Drift(_, _, _, _, _)
Drift(price, res, span, low, k) ==
    IF k = 0 THEN price
    ELSE IF k = 1 THEN Fluctuate(price, res, span, low)
    ELSE CHOOSE y \in { Drift(x, res, span, low, k - (k \div 2)) :
                           x \in {Drift(price, res, span, low, k \div 2)} } : TRUE

\* The prices main() starts with, the prices after a long run of advances
\* that all drew the largest fall, and after one that all drew the largest
\* rise.
FeedPrices ==
    { [crypto |-> FromInt(150), gold |-> FromInt(60), silver |-> FromInt(25)],
      [crypto |-> Drift(FromInt(150), 0, 35, 15, LongRun),
       gold   |-> Drift(FromInt(60), 0, 15, 5, LongRun),
       silver |-> Drift(FromInt(25), 0, 25, 10, LongRun)],
      [crypto |-> Drift(FromInt(150), 34, 35, 15, LongRun),
       gold   |-> Drift(FromInt(60), 14, 15, 5, LongRun),
       silver |-> Drift(FromInt(25), 24, 25, 10, LongRun)] }

\* One account is registered, saved and logged in.
InitFeed ==
    /\ accounts = <<initializeAccount(<<"a", "l">>, 1234)>>
    /\ accountCount = 1
    /\ currentUserIndex = 0
    /\ marketPrices \in FeedPrices
    /\ exchangeRates = [eur |-> Dec(110, 100), gbp |-> Dec(127, 100), inr |-> Dec(12, 1000)]
    /\ file = [exists |-> TRUE, count |-> <<1>>, recs |-> accounts]
    /\ pc = "user"
    /\ last = Rep("none", "NONE")
    /\ ioFaults = 0
    /\ nops = 0

\* The prices updateMarketPrices can leave, over the values of rand().
AdvanceOutcomes == { updateMarketPrices(d[1], d[2], d[3]) : d \in RandDraws }

\* The user menu is shown and another advance is followed.
CanAdvance == pc = "user" /\ nops < MaxAdvances /\ Running

\* case 6 of the user menu with the rand() calls unrestricted.
FeedAdvance ==
    /\ CanAdvance
    /\ marketPrices' \in AdvanceOutcomes
    /\ Apply(Keep(Rep("advance", "NONE")))
    /\ Returned

NextFeed ==
    \/ FeedAdvance
    \/ UserMenuLoop

SpecFeed == InitFeed /\ [][NextFeed]_vars

(***************************************************************************)
(* Properties.                                                             *)
(***************************************************************************)
Accts == 0..(accountCount - 1)
Acct(i) == Slot(accounts, i)

NonNeg(x) == F32Ge(x, Zero)

\* The registry, the account count and the store file are as before the step.
Untouched == accounts' = accounts /\ accountCount' = accountCount /\ file' = file

\* C1: in every reachable state every account has cashBalance >= 0 and
\* loanOutstanding >= 0.
C1_CashAndLoanNonNegative ==
    \A i \in Accts : NonNeg(Acct(i).balance) /\ NonNeg(Acct(i).loan)

\* C2: in every reachable state the three asset holdings and the three
\* currency holdings of every account are >= 0.
C2_HoldingsNonNegative ==
    \A i \in Accts :
        /\ NonNeg(Acct(i).assets.crypto)
        /\ NonNeg(Acct(i).assets.gold)
        /\ NonNeg(Acct(i).assets.silver)
        /\ NonNeg(Acct(i).currencies.eur)
        /\ NonNeg(Acct(i).currencies.gbp)
        /\ NonNeg(Acct(i).currencies.inr)

\* Some registered account has this name or this PIN.
SharesIdentity(name, pin) ==
    \E i \in Accts : Acct(i).name = name \/ Acct(i).pin = pin

\* No two accounts share a name and no two share a PIN.
UniqueIdentities ==
    \A i \in Accts : \A j \in Accts :
        i # j => Acct(i).name # Acct(j).name /\ Acct(i).pin # Acct(j).pin

\* C3: a registration whose name or PIN an existing account has fails with
\* ERROR_ACCOUNT_EXISTS and leaves the registry and the store file as they
\* were; after every registration names and PINs are pairwise distinct.
C3_DuplicateIdentityRejected ==
    [][ (last'.op = "register" /\ last'.pinAsked) =>
            /\ SharesIdentity(last'.name, last'.pin.v) =>
                   (last'.result = "ERROR_ACCOUNT_EXISTS" /\ Untouched)
            /\ UniqueIdentities' ]_vars

\* A registration was refused for its PIN alone: the name is new.
C3_Witness ==
    /\ last.op = "register"
    /\ last.result = "ERROR_ACCOUNT_EXISTS"
    /\ accountCount = 1
    /\ Acct(0).name # last.name
    /\ Acct(0).pin = last.pin.v

\* The store file holds the count and the records of the registry; a store
\* never written stands for the empty registry.
FileMatchesMemory ==
    IF file.exists
    THEN file.count = <<accountCount>> /\ file.recs = Registry(accounts, accountCount)
    ELSE accountCount = 0

\* C4: as long as no saveAccounts call has failed, the store file equals the
\* registry in memory whenever main() is between two handlers.
C4_SnapshotEqualsRegistry ==
    (pc # "boot" /\ ioFaults = 0) => FileMatchesMemory

\* The error codes other than ERROR_FILE_IO.
Failures == { "ERROR_INSUFFICIENT_FUNDS", "ERROR_INVALID_PIN", "ERROR_ACCOUNT_EXISTS",
              "ERROR_INVALID_INPUT" }

\* C5: a handler that reports a failure other than ERROR_FILE_IO leaves every
\* account field, the account count and the store file as they were; a
\* purchase with an invalid selection restores the balance it debited.
C5_FailureLeavesStateUnchanged ==
    [][ last'.result \in Failures => Untouched ]_vars

PinGated == { "withdraw", "purchaseAsset", "takeLoan", "repayLoan" }

\* The PIN entered in the step is the PIN of the selected account.
EnteredOwnPin == last'.pinAsked /\ last'.pin.ok /\ last'.pin.v = Cur.pin

\* C6: withdraw, purchaseAsset, takeLoan and repayLoan change no account
\* field and not the store file unless the PIN entered in the same handler is
\* the selected account's; any other entry at the PIN prompt ends the handler
\* with ERROR_INVALID_PIN.
C6_PinGatesOutboundOperations ==
    [][ last'.op \in PinGated =>
            /\ ~Untouched => EnteredOwnPin
            /\ (last'.pinAsked /\ ~EnteredOwnPin) =>
                   last'.result = "ERROR_INVALID_PIN" ]_vars

\* Another account's PIN was entered at a verification prompt and refused.
C6_Witness ==
    /\ last.op \in PinGated
    /\ last.pinAsked
    /\ last.pin.ok
    /\ last.pin.v # Cur.pin
    /\ last.result = "ERROR_INVALID_PIN"

\* Every account's loan is 0 or the fixed loan amount.
LoanZeroOrFixed ==
    \A i \in Accts : Acct(i).loan = Zero \/ Acct(i).loan = LOAN_AMOUNT

\* A loan was taken in the step: there was none, now the fixed amount is
\* owed and the balance has grown by it.
LoanTaken ==
    /\ F32Eq(Cur.loan, Zero)
    /\ Cur'.loan = LOAN_AMOUNT
    /\ Cur'.balance = F32Add(Cur.balance, LOAN_AMOUNT)

C8_ConvertToForeignRejectsBadAmount ==
    [][ (last'.op = "convertToForeign" /\ last'.amount.ok) =>
            /\ F32Le(last'.amount.v, Zero) =>
                   (last'.result = "ERROR_INVALID_INPUT" /\ Untouched)
            /\ F32Gt(last'.amount.v, Cur.balance) =>
                   (last'.result = "ERROR_INSUFFICIENT_FUNDS" /\ Untouched) ]_vars

\* C9: withdraw with amount > cashBalance fails with
\* ERROR_INSUFFICIENT_FUNDS and leaves the registry and the store file as
\* they were, whatever the balance, the amount and the PIN.
C9_OverdraftRejected ==
    [][ (last'.op = "withdraw" /\ F32Gt(last'.amount.v, Cur.balance)) =>
            (last'.result = "ERROR_INSUFFICIENT_FUNDS" /\ Untouched) ]_vars

\* C10: when a handler's saveAccounts call fails, the handler keeps what it
\* changed in memory and reports ERROR_FILE_IO.
C10_SaveFailureReported ==
    [][ last'.saved = "fail" =>
            /\ last'.result = "ERROR_FILE_IO"
            /\ last'.op = "register" => accountCount' = accountCount + 1
            /\ last'.op = "deposit" =>
                   Cur'.balance = F32Add(Cur.balance, last'.amount.v) ]_vars

\* C11: when saveAccounts has succeeded on a registry of N accounts
\* (0 <= N <= MAX_ACCOUNTS), loadAccounts in a fresh process succeeds and
\* leaves the same account count and, position by position, accounts equal in
\* every field.
C11_SaveThenLoadReproduces ==
    [][ (pc = "saved" /\ last.result = "SUCCESS" /\ pc' = "main") =>
            /\ last'.result = "SUCCESS"
            /\ accountCount' = accountCount
            /\ Registry(accounts', accountCount') = Registry(accounts, accountCount) ]_vars

\* Two accounts with a loan, an asset holding and a currency holding have
\* been loaded from a file of two records, which only a save leaves.
C11_Witness ==
    /\ last.op = "load"
    /\ last.result = "SUCCESS"
    /\ file.count = <<2>>
    /\ Len(file.recs) = 2
    /\ accountCount = 2
    /\ Acct(0) = Debtor
    /\ Acct(1) = Saver

\* C12: loadAccounts in a fresh process returns SUCCESS with an empty
\* registry when the store file is missing, and ERROR_FILE_IO when the file
\* exists and has no count or a count that differs from the number of records
\* in the file, fewer or more.
C12_LoadRejectsDamagedFile ==
    [][ (pc \in { "store", "saved" } /\ pc' = "main") =>
            /\ ~file.exists =>
                   (last'.result = "SUCCESS" /\ accountCount' = 0 /\ accounts' = <<>>)
            /\ (file.exists /\ Len(file.count) = 0) => last'.result = "ERROR_FILE_IO"
            /\ (file.exists /\ Len(file.count) = 1 /\ file.count[1] # Len(file.recs)) =>
                   last'.result = "ERROR_FILE_IO" ]_vars

\* The error codes of the program (ErrorCode without SUCCESS).
ErrorCodes == { "ERROR_INSUFFICIENT_FUNDS", "ERROR_INVALID_PIN", "ERROR_ACCOUNT_EXISTS",
                "ERROR_FILE_IO", "ERROR_INVALID_INPUT" }

\* The registry holds MAX_ACCOUNTS accounts (or a count beyond, after a load).
AtCapacity == accountCount >= MAX_ACCOUNTS

\* A registration on a full registry asks for nothing and changes nothing,
\* and no registration leaves more than MAX_ACCOUNTS accounts.
FullRegistryRefused ==
    /\ AtCapacity =>
           (~last'.pinAsked /\ last'.name = <<>> /\ last'.saved = "none" /\ Untouched)
    /\ accountCount' <= MAX_ACCOUNTS

C14_RegisterAppendsFreshAccount ==
    [][ (last'.op = "register" /\ last'.result = "SUCCESS") =>
            /\ accountCount' = accountCount + 1
            /\ Slot(accounts', accountCount) =
                   [name |-> last'.name, pin |-> last'.pin.v,
                    balance |-> STARTING_BALANCE, loan |-> Zero,
                    assets |-> [crypto |-> Zero, gold |-> Zero, silver |-> Zero],
                    currencies |-> [eur |-> Zero, gbp |-> Zero, inr |-> Zero]]
            /\ \A i \in Accts : Slot(accounts', i) = Acct(i)
            /\ file' = [exists |-> TRUE, count |-> <<accountCount'>>,
                        recs |-> Registry(accounts', accountCount')] ]_vars

\* A second account has been registered behind one that has a loan.
C14_Witness ==
    /\ last.op = "register"
    /\ last.result = "SUCCESS"
    /\ accountCount = 2
    /\ Acct(0) = Debtor
    /\ Acct(1).name = <<"b", "o">>
    /\ Len(file.recs) = 2

\* The handler of the step was not stopped by a wrong entry at the PIN prompt
\* or by a failing save.
Unhindered == ~(last'.pinAsked /\ ~EnteredOwnPin) /\ last'.saved # "fail"

\* C15: when a deposit of a > 0 on a balance b >= 0 has succeeded and the next
\* handler is a withdrawal of the same a with the account's PIN, the
\* withdrawal succeeds and leaves the account as it was before the deposit:
\* cashBalance exactly b, loan and holdings unchanged.
C15_DepositThenWithdrawRestores ==
    [][ ( /\ last.prev.op = "deposit"
          /\ NonNeg(last.prev.before.balance)
          /\ last'.op = "withdraw"
          /\ last'.amount = last.prev.amount
          /\ Unhindered ) =>
            (last'.result = "SUCCESS" /\ Cur' = last.prev.before) ]_vars

\* The units a purchase at the current prices adds to each asset holding.
Bought(kind) ==
    [crypto |-> IF kind = 1 THEN F32Div(ASSET_PURCHASE_AMOUNT, marketPrices.crypto) ELSE Zero,
     gold   |-> IF kind = 2 THEN F32Div(ASSET_PURCHASE_AMOUNT, marketPrices.gold) ELSE Zero,
     silver |-> IF kind = 3 THEN F32Div(ASSET_PURCHASE_AMOUNT, marketPrices.silver) ELSE Zero]

\* The purchase of the step has debited the purchase amount and credited the
\* units bought to the chosen holding only.
PurchaseBooked ==
    LET bought == Bought(last'.choice.v)
    IN  Cur' = [Cur EXCEPT
                   !.balance = F32Sub(@, ASSET_PURCHASE_AMOUNT),
                   !.assets.crypto = IF last'.choice.v = 1 THEN F32Add(@, bought.crypto) ELSE @,
                   !.assets.gold   = IF last'.choice.v = 2 THEN F32Add(@, bought.gold) ELSE @,
                   !.assets.silver = IF last'.choice.v = 3 THEN F32Add(@, bought.silver) ELSE @]

\* C16: a purchase that succeeds debits the purchase amount A, credits A/P
\* units at the current price P to the chosen holding only, and leaves the net
\* worth, computed at the same prices, equal to the net worth before it.
C16_PurchaseKeepsNetWorth ==
    [][ (last'.op = "purchaseAsset" /\ last'.result = "SUCCESS") =>
            /\ PurchaseBooked
            /\ netWorthOf(Cur', marketPrices, exchangeRates) = netWorth ]_vars

\* The exchange rate of currency c (1 EUR, 2 GBP, 3 INR) and the units an
\* account holds of it.
RateOf(c) ==
    IF c = 1 THEN exchangeRates.eur ELSE IF c = 2 THEN exchangeRates.gbp ELSE exchangeRates.inr

HeldOf(user, c) ==
    IF c = 1 THEN user.currencies.eur
    ELSE IF c = 2 THEN user.currencies.gbp ELSE user.currencies.inr

\* C17: when a conversion of usdAmount (0 < usdAmount <= cashBalance) to a
\* currency has succeeded and the next handler converts back, from the same
\* currency, the units that conversion credited, the conversion back succeeds
\* and cashBalance and the holding of that currency are what they were before
\* the first conversion.
C17_ConversionRoundTripRestores ==
    [][ ( /\ last.prev.op = "convertToForeign"
          /\ last'.op = "convertFromForeign"
          /\ last'.choice2 = last.prev.choice
          /\ last'.amount.ok
          /\ last'.amount.v = F32Div(last.prev.amount.v, RateOf(last.prev.choice.v))
          /\ last'.saved # "fail" ) =>
            /\ last'.result = "SUCCESS"
            /\ Cur'.balance = last.prev.before.balance
            /\ HeldOf(Cur', last.prev.choice.v) =
                   HeldOf(last.prev.before, last.prev.choice.v) ]_vars

Matches(i, name, pin) == Acct(i).name = name /\ Acct(i).pin = pin

\* C19: a login with a name and a PIN that were read succeeds exactly when
\* some registered account has both the name and the PIN, and then makes
\* such an account the current one and enters the user menu; otherwise it
\* returns ERROR_INVALID_PIN with the message "Invalid credentials", selects
\* no account and stays at the main menu; in both cases the registry and
\* the store file are left as they were.
C19_LoginIffNameAndPinMatch ==
    [][ (last'.op = "login" /\ last'.pin.ok) =>
            /\ Untouched
            /\ IF \E i \in Accts : Matches(i, last'.name, last'.pin.v)
               THEN /\ last'.result = "SUCCESS"
                    /\ currentUserIndex' \in Accts
                    /\ Matches(currentUserIndex', last'.name, last'.pin.v)
                    /\ pc' = "user"
               ELSE /\ last'.result = "ERROR_INVALID_PIN"
                    /\ last'.msg = "Login failed. Invalid credentials."
                    /\ currentUserIndex' = 0 - 1
                    /\ pc' = "main_ret" ]_vars

\* A login was refused although an account has the name: the PIN entered is
\* that of the other account.
C19_Witness ==
    /\ last.op = "login"
    /\ last.result = "ERROR_INVALID_PIN"
    /\ accountCount = 2
    /\ Acct(0).name = last.name
    /\ Acct(1).pin = last.pin.v
    /\ currentUserIndex = 0 - 1

\* The operations of the ledger, by the name their report carries.
LedgerOps ==
    { "deposit", "withdraw", "purchaseAsset", "takeLoan", "repayLoan",
      "accrueInterest", "convertToForeign", "convertFromForeign" }

\* The step leaves the name and the PIN of every account, every field of
\* every account but the current one, the account count and the selection
\* as they were.
OnlyCurrentLedgerFields ==
    /\ accountCount' = accountCount
    /\ currentUserIndex' = currentUserIndex
    /\ Len(accounts') = Len(accounts)
    /\ \A i \in Accts :
          IF i = currentUserIndex
          THEN /\ Slot(accounts', i).name = Acct(i).name
               /\ Slot(accounts', i).pin = Acct(i).pin
          ELSE Slot(accounts', i) = Acct(i)

\* C20: a ledger operation changes at most the balance, the loan and the
\* holdings of the current account: names, PINs, the other accounts, the
\* account count, the asset prices and the exchange rates stay as they
\* were; updateMarketPrices changes nothing but the three asset prices.
C20_LedgerTouchesOnlyCurrentAccount ==
    [][ /\ last'.op \in LedgerOps =>
               /\ OnlyCurrentLedgerFields
               /\ marketPrices' = marketPrices
               /\ exchangeRates' = exchangeRates
        /\ last'.op = "advance" =>
               /\ Untouched
               /\ currentUserIndex' = currentUserIndex
               /\ exchangeRates' = exchangeRates
               /\ DOMAIN marketPrices' = {"crypto", "gold", "silver"} ]_vars

\* The second of two accounts is logged in and a deposit has raised its
\* balance; the first account still has its starting balance.
C20_Witness ==
    /\ last.op = "deposit"
    /\ last.result = "SUCCESS"
    /\ accountCount = 2
    /\ currentUserIndex = 1
    /\ F32Gt(Acct(1).balance, STARTING_BALANCE)
    /\ Acct(0).balance = STARTING_BALANCE

\* price * (1.0f + p / 100.0f): the price after a change of p percent.
PriceAt(price, p) ==
    F32Mul(price, F32Add(One, F32Div(FromInt(p), FromInt(100))))

\* new is old changed by a whole number of percent between lo and hi.
ChangedWithin(old, new, lo, hi) == \E p \in lo..hi : new = PriceAt(old, p)

\* The next advance can change the crypto, gold and silver price by p percent.
CryptoCanChange(p) ==
    \E o \in AdvanceOutcomes : o.crypto = PriceAt(marketPrices.crypto, p)
GoldCanChange(p) ==
    \E o \in AdvanceOutcomes : o.gold = PriceAt(marketPrices.gold, p)
SilverCanChange(p) ==
    \E o \in AdvanceOutcomes : o.silver = PriceAt(marketPrices.silver, p)

\* All three asset prices are strictly positive.
PricesPositive ==
    /\ F32Gt(marketPrices.crypto, Zero)
    /\ F32Gt(marketPrices.gold, Zero)
    /\ F32Gt(marketPrices.silver, Zero)

\* Every advance changes each price by a whole percentage within lo..hi.
AdvanceWithin(clo, chi, glo, ghi, slo, shi) ==
    last'.op = "advance" =>
        /\ ChangedWithin(marketPrices.crypto, marketPrices'.crypto, clo, chi)
        /\ ChangedWithin(marketPrices.gold, marketPrices'.gold, glo, ghi)
        /\ ChangedWithin(marketPrices.silver, marketPrices'.silver, slo, shi)

\* C21: every advance multiplies the crypto price by 0.85..1.20, the gold
\* price by 0.95..1.10 and the silver price by 0.90..1.15 in whole percent
\* steps; wherever an advance can be made, each of these changes, the
\* largest rises +20 %, +10 % and +15 % included, can be the one it makes;
\* all three prices are strictly positive in every state.
C21_AdvanceWithinDocumentedRanges ==
    /\ [][AdvanceWithin(0 - 15, 20, 0 - 5, 10, 0 - 10, 15)]_vars
    /\ [](CanAdvance =>
              /\ \A p \in (0 - 15)..20 : CryptoCanChange(p)
              /\ \A p \in (0 - 5)..10 : GoldCanChange(p)
              /\ \A p \in (0 - 10)..15 : SilverCanChange(p))
    /\ []PricesPositive

\* The user menu loop is running: a handler can be invoked or has returned.
InSession == pc \in {"user", "user_ret"}

\* The step is a login that succeeded with the name and the PIN of the
\* account it selects.
LoginSelects ==
    /\ last'.op = "login"
    /\ last'.result = "SUCCESS"
    /\ currentUserIndex' \in Accts
    /\ Matches(currentUserIndex', last'.name, last'.pin.v)
    /\ InSession'

\* The step is the logout: the selection is cleared and the program ends.
LogoutClears ==
    /\ last'.op = "logout"
    /\ currentUserIndex' = 0 - 1
    /\ pc' = "exit"

\* C22: while the user menu runs, currentUserIndex designates an existing
\* account; the selection changes only in a successful login, which selects
\* an account with the name and the PIN entered, and in the logout, which
\* clears it; between the two no account is registered and the selected
\* account keeps its index, its name and its PIN; after the logout (and
\* after exit) the program takes no further step.
C22_SessionSelectsOneExistingAccount ==
    /\ [](InSession => currentUserIndex \in Accts)
    /\ [](~InSession => currentUserIndex = 0 - 1)
    /\ [][ /\ currentUserIndex' # currentUserIndex => (LoginSelects \/ LogoutClears)
           /\ (last'.op = "login" /\ last'.result = "SUCCESS") => LoginSelects
           /\ (InSession /\ InSession') =>
                  /\ accountCount' = accountCount
                  /\ currentUserIndex' = currentUserIndex
                  /\ Cur'.name = Cur.name
                  /\ Cur'.pin = Cur.pin
           /\ pc # "exit" ]_vars

\* Two operations into the session of the second of two accounts.
C22_Witness ==
    /\ pc = "user"
    /\ nops = 2
    /\ accountCount = 2
    /\ currentUserIndex = 1
    /\ Cur.name = <<"b", "o">>

\* The number of account records written to accounts[].
RecordsInMemory ==
    Cardinality({ j \in 1..Len(accounts) : accounts[j] # ZeroAccount })

\* C23: in every state 0 <= accountCount <= MAX_ACCOUNTS and accountCount is
\* the number of account records in memory; a load that returns
\* ERROR_FILE_IO leaves the registry of the starting process empty, with
\* count 0.
C23_CountMatchesRecordsAfterLoad ==
    /\ [](/\ 0 <= accountCount
          /\ accountCount <= MAX_ACCOUNTS
          /\ accountCount = RecordsInMemory)
    /\ [][ (last'.op = "load" /\ last'.result = "ERROR_FILE_IO") =>
               (accounts' = <<>> /\ accountCount' = 0) ]_vars

====
